---- MODULE Spec2Model ----
(***************************************************************************)
(* The change-capture / anonymize / checkpoint pipeline of sync.ts (class  *)
(* CustomersAnonymizer, resume-token variant), its transform, and the      *)
(* backfill of sync.ts and of the re-scan variant (types.ts).              *)
(*                                                                         *)
(* A source document version is identified by the index of the change      *)
(* event that produced it: events are numbered 1, 2, ... in feed order,    *)
(* and the position token of event e is e itself (0 stands for "no         *)
(* token", the undefined of the source).                                   *)
(***************************************************************************)
EXTENDS Integers, Sequences, FiniteSets

\* ---------------------------------------------------------------- bounds
\* batchCount is 1000 in the source (sync.ts:71); the model scales it down.
batchCount == 2
\* number of change events the source store emits
MaxEvents == 3
\* number of un-awaited writes of one kind that may be in flight together
MaxInFlight == 2
\* number of process starts (1 + number of restarts)
MaxRuns == 2
\* maxWriteBatchSize is 100000 in the source (sync.ts:70); scaled down.
maxWriteBatchSize == 2
\* number of customers in the source store when a backfill starts
MaxCustomers == 5

VARIABLES
  feed,                  \* the change feed of the customers collection
  pos,                   \* position of the open subscription in the feed
  pc,                    \* "down" | "streaming" | "failed" | "reindex"
  customerDocuments,     \* this.customerDocuments, the batch buffer
  resumeToken,           \* this.resumeToken, the pending checkpoint
  timer,                 \* this.timer is set
  bulkWrites,            \* bulkWrite calls issued by save, not yet answered
  tokenWrites,           \* updateOne calls of saveResumeToken, not yet answered
  anonymisedCollection,  \* the target store
  resumeTokenCollection, \* the checkpoint store
  written,               \* history: versions whose upsert was applied
  seen,                  \* history: events handed to the change handler
  failedDocs,            \* history: versions of batches whose bulkWrite failed
  saveCalls,             \* history: non-empty batches handed to save, this run
  restarts,              \* history: the token loaded by each start
  startPos,              \* history: feed position the subscription opened at
  backfill,              \* the backfill (saveWithCursor) of the running process
  sourceDocument,        \* a source document handed to save's map callback
  bulkDocument,          \* the document that callback puts in the bulk write
  stopped                \* history: the feed and the target store as the
                         \* re-scan variant's process last ended

vars == <<feed, pos, pc, customerDocuments, resumeToken, timer, bulkWrites,
          tokenWrites, anonymisedCollection, resumeTokenCollection, written,
          seen, failedDocs, saveCalls, restarts, startPos, backfill,
          sourceDocument, bulkDocument, stopped>>

memory == <<customerDocuments, resumeToken, timer, bulkWrites, tokenWrites>>
stores == <<anonymisedCollection, resumeTokenCollection>>
sample == <<sourceDocument, bulkDocument>>

\* ---------------------------------------------------------------- values
\* An _id is an ObjectId (12 bytes in the source, one byte here) or its hex
\* string.
ObjectIds == {[t |-> "oid", v |-> <<26>>], [t |-> "oid", v |-> <<171>>]}

FromHex(s) == <<s[1] * 16 + s[2]>>

\* new ObjectId(inputId): parses a hex string, else copies the bytes
NewObjectId(inputId) ==
  IF inputId.t = "hex"
    THEN [t |-> "oid", v |-> FromHex(inputId.v)]
    ELSE [t |-> "oid", v |-> [i \in 1..Len(inputId.v) |-> inputId.v[i]]]

\* event.fullDocument of an event whose document lookup found nothing
NoDocument == [_id |-> [t |-> "undefined", v |-> <<>>]]

\* event.fullDocument of event e, as of that change (ver = e)
FullDocument(e) == [_id |-> feed[e].fullDocument._id, ver |-> e]

Remove(s, i) == [j \in 1..(Len(s) - 1) |-> IF j < i THEN s[j] ELSE s[j + 1]]

Versions(batch) == {batch[i].ver : i \in 1..Len(batch)}

\* ------------------------------------------------------ the target store
\* One updateOne of the bulk write: filter {_id}, update {$set: doc},
\* upsert: true.  _id carries the collection's unique index.
UpsertAlwaysInserts(coll, doc) == Append(coll, doc)

UpdateOneUpsert(coll, doc) ==
  IF \E i \in DOMAIN coll : coll[i]._id = doc._id
    THEN LET i == CHOOSE k \in DOMAIN coll :
                    /\ coll[k]._id = doc._id
                    /\ \A j \in 1..(k - 1) : coll[j]._id # doc._id
         IN  [coll EXCEPT ![i] = doc]
    ELSE Append(coll, doc)

\* documents.map(...): the anonymized document keyed by new ObjectId(_id);
\* ver names the source version the anonymized fields were derived from
BulkOperation(document) ==
  [_id |-> NewObjectId(document._id), ver |-> document.ver]

BulkOperations(documents) ==
  [i \in 1..Len(documents) |-> BulkOperation(documents[i])]

\* the first n operations of an ordered bulk write, applied in order
RECURSIVE BulkWrite(_, _, _)
BulkWrite(coll, ops, n) ==
  IF n = 0 THEN coll
  ELSE UpdateOneUpsert(BulkWrite(coll, ops, n - 1), ops[n])

\* save(documents): a bulk write is issued only for a non-empty batch
SaveEmptyBatchToo(documents, writes) == Append(writes, BulkOperations(documents))

Save(documents, writes) ==
  IF Len(documents) > 0 THEN Append(writes, BulkOperations(documents))
  ELSE writes

\* -------------------------------------------------- the checkpoint store
\* the filter of saveResumeToken's updateOne: { where: { id: "resumeToken" } }
TokenFilter(doc) == doc.where = [id |-> "resumeToken"]

\* the document an upsert inserts: the filter's equality fields plus $set
TokenDocument(token) ==
  [where |-> [id |-> "resumeToken"], id |-> "resumeToken", resumeToken |-> token]

\* findOne({ id: "resumeToken" }): the first matching document, 0 for none
FindOneResumeToken(coll) ==
  IF \E i \in DOMAIN coll : coll[i].id = "resumeToken"
    THEN LET i == CHOOSE k \in DOMAIN coll :
                    /\ coll[k].id = "resumeToken"
                    /\ \A j \in 1..(k - 1) : coll[j].id # "resumeToken"
         IN  coll[i].resumeToken
    ELSE 0

SavedToken == FindOneResumeToken(resumeTokenCollection)

\* saveResumeToken(): returns early without a token, else issues the updateOne
SaveResumeToken(token, writes) ==
  IF token = 0 THEN writes
  ELSE Append(writes, [resumeToken |-> token, phase |-> "sent"])

\* ------------------------------------------------------------ the state
\* the undefined of the source
Undefined == [t |-> "undefined", v |-> <<>>]

\* the process of the re-scan variant has not ended yet
NeverStopped == [at |-> 0, newest |-> 0]

\* no backfill is running.  pc is the place saveWithCursor or its caller is
\* at: "idle", "find" (the newest anonymised customer is being looked up),
\* "reading" (the while loop), "saving" (the save of a full page is awaited),
\* "flushing" (the save after the loop is awaited) or "done".
NoBackfill ==
  [pc |-> "idle", since |-> 0, cursor |-> <<>>, next |-> 0,
   updateDocuments |-> <<>>, pages |-> <<>>]

NotStarted ==
  /\ feed = <<>>
  /\ pos = 0
  /\ pc = "down"
  /\ customerDocuments = <<>>
  /\ resumeToken = 0
  /\ timer = FALSE
  /\ bulkWrites = <<>>
  /\ tokenWrites = <<>>
  /\ anonymisedCollection = <<>>
  /\ resumeTokenCollection = <<>>
  /\ written = {}
  /\ seen = {}
  /\ failedDocs = {}
  /\ saveCalls = <<>>
  /\ restarts = <<>>
  /\ startPos = 0
  /\ backfill = NoBackfill
  /\ stopped = NeverStopped

Init ==
  /\ NotStarted
  /\ sourceDocument = Undefined
  /\ bulkDocument = Undefined

\* The process is gone: its memory, its subscription and the requests it
\* had not yet been answered are lost; the two stores remain.
ProcessExit ==
  /\ pc' = "down"
  /\ pos' = 0
  /\ customerDocuments' = <<>>
  /\ resumeToken' = 0
  /\ timer' = FALSE
  /\ bulkWrites' = <<>>
  /\ tokenWrites' = <<>>
  /\ saveCalls' = <<>>
  /\ startPos' = 0
  /\ backfill' = NoBackfill

\* ---------------------------------------------------------- environment
\* The subscription's pipeline passes insert and update events only.  The
\* handler sees one event at a time, so while a subscription is open the next
\* event is emitted once the previous one was handled.
Inserted ==
  {feed[e].fullDocument._id :
     e \in {x \in DOMAIN feed : feed[x].operationType = "insert"}}

\* the driver generates the _id of an inserted customer, in increasing order
NextObjectId ==
  CHOOSE id \in ObjectIds \ Inserted :
    \A other \in ObjectIds \ Inserted : id.v[1] <= other.v[1]

\* insertMany of the customers generator: an insert event carries the document
SourceInsert ==
  /\ Len(feed) < MaxEvents
  /\ pc = "streaming" => pos = Len(feed)
  /\ ObjectIds \ Inserted # {}
  /\ feed' = Append(feed, [operationType |-> "insert",
                           fullDocument |-> [_id |-> NextObjectId]])
  /\ UNCHANGED <<pos, pc, memory, stores, written, seen, failedDocs,
                 saveCalls, restarts, startPos>>

  /\ UNCHANGED <<backfill, sample, stopped>>
\* an update of an inserted customer: fullDocument: "updateLookup" yields the
\* customer, or nothing when the lookup does not find it any more
SourceUpdate(document) ==
  /\ Len(feed) < MaxEvents
  /\ pc = "streaming" => pos = Len(feed)
  /\ document = NoDocument \/ document._id \in Inserted
  /\ Inserted # {}
  /\ feed' = Append(feed, [operationType |-> "update", fullDocument |-> document])
  /\ UNCHANGED <<pos, pc, memory, stores, written, seen, failedDocs,
                 saveCalls, restarts, startPos>>

  /\ UNCHANGED <<backfill, sample, stopped>>
\* ------------------------------------------------------------ start()
\* start(false): loadSavedResumeToken, then watch: startIntervalSave and the
\* subscription, resumed after the loaded token or opened at the feed's tail.
ResumePosition(token) == IF token = 0 THEN Len(feed) ELSE token

StartBody ==
  /\ pc \in {"down", "failed"}
  /\ ~timer
  /\ LET token == FindOneResumeToken(resumeTokenCollection) IN
     /\ resumeToken' = token
     /\ pos' = ResumePosition(token)
     /\ startPos' = ResumePosition(token)
     /\ restarts' = Append(restarts, token)
  /\ pc' = "streaming"
  /\ timer' = TRUE
  /\ customerDocuments' = <<>>
  /\ UNCHANGED <<feed, bulkWrites, tokenWrites, stores, written, seen,
                 failedDocs, saveCalls>>

  /\ UNCHANGED <<backfill, sample, stopped>>
\* the first start of the process
StartFirst == Len(restarts) = 0 /\ StartBody

\* a start, or a restart after the process went down
Start == Len(restarts) < MaxRuns /\ StartBody

\* ------------------------------------------------- a subscription error
\* stopIntervalSave: clearInterval(this.timer)
StopIntervalSaveKeeps(running) == running

StopIntervalSave(running) == FALSE

\* start(false) when opening the subscription throws: the token is loaded and
\* the timer is set, then watch's catch logs the error, stops the timer and
\* throws it on; main catches it, logs it and closes the client.
WatchThrowsBody ==
  /\ pc \in {"down", "failed"}
  /\ ~timer
  /\ LET token == FindOneResumeToken(resumeTokenCollection) IN
     /\ resumeToken' = token
     /\ restarts' = Append(restarts, token)
  /\ timer' = StopIntervalSave(TRUE)
  /\ pc' = "failed"
  /\ customerDocuments' = <<>>
  /\ UNCHANGED <<feed, pos, bulkWrites, tokenWrites, stores, written, seen,
                 failedDocs, saveCalls, startPos>>

  /\ UNCHANGED <<backfill, sample, stopped>>
WatchThrowsFirst == Len(restarts) = 0 /\ WatchThrowsBody

WatchThrows == Len(restarts) < MaxRuns /\ WatchThrowsBody

\* The open subscription emits 'error'.  Only a "change" listener is
\* registered, so the emitter throws the error: the uncaught exception ends
\* the process, with its timer and the requests it had not been answered.
StreamError ==
  /\ pc = "streaming"
  /\ pc' = "failed"
  /\ pos' = 0
  /\ customerDocuments' = <<>>
  /\ resumeToken' = 0
  /\ timer' = FALSE
  /\ bulkWrites' = <<>>
  /\ tokenWrites' = <<>>
  /\ saveCalls' = <<>>
  /\ startPos' = 0
  /\ UNCHANGED <<feed, stores, written, seen, failedDocs, restarts>>

  /\ UNCHANGED <<backfill, sample, stopped>>
\* ------------------------------------------------- the change handler
HasFullDocumentAlways(event) == TRUE

HasFullDocument(event) == event.fullDocument # NoDocument

SizeTriggerOffByOne(length) == length > batchCount

SizeTrigger(length) == length >= batchCount

OnChange ==
  /\ pc = "streaming"
  /\ pos < Len(feed)
  /\ pos' = pos + 1
  /\ seen' = seen \cup {pos + 1}
  /\ IF ~HasFullDocument(feed[pos + 1])
       THEN UNCHANGED <<memory, saveCalls>>
       ELSE LET documents == Append(customerDocuments, FullDocument(pos + 1)) IN
            /\ resumeToken' = pos + 1
            /\ UNCHANGED timer
            /\ IF SizeTrigger(Len(documents))
                 THEN /\ Len(bulkWrites) < MaxInFlight
                      /\ Len(tokenWrites) < MaxInFlight
                      /\ tokenWrites' = SaveResumeToken(pos + 1, tokenWrites)
                      /\ customerDocuments' = <<>>
                      /\ bulkWrites' = Save(documents, bulkWrites)
                      /\ saveCalls' = Append(saveCalls,
                                             [kind |-> "size", batch |-> documents])
                 ELSE /\ customerDocuments' = documents
                      /\ UNCHANGED <<bulkWrites, tokenWrites, saveCalls>>
  /\ UNCHANGED <<feed, pc, stores, written, failedDocs, restarts, startPos>>

  /\ UNCHANGED <<backfill, sample, stopped>>
\* ------------------------------------------------- the interval callback
\* const customers = this.customerDocuments
IntervalCustomersAfterSwap(documents) == <<>>

IntervalCustomers(documents) == documents

\* this.customerDocuments = []
IntervalKeepsBuffer(documents) == documents

IntervalSwap(documents) == <<>>

TimerTick ==
  /\ pc # "down"
  /\ timer
  /\ resumeToken # 0 => Len(tokenWrites) < MaxInFlight
  /\ customerDocuments # <<>> => Len(bulkWrites) < MaxInFlight
  /\ tokenWrites' = SaveResumeToken(resumeToken, tokenWrites)
  /\ LET customers == IntervalCustomers(customerDocuments) IN
     /\ bulkWrites' = Save(customers, bulkWrites)
     /\ saveCalls' = IF Len(customers) > 0
                       THEN Append(saveCalls, [kind |-> "timer", batch |-> customers])
                       ELSE saveCalls
  /\ customerDocuments' = IntervalSwap(customerDocuments)
  /\ UNCHANGED <<feed, pos, pc, resumeToken, timer, stores, written, seen,
                 failedDocs, restarts, startPos>>

  /\ UNCHANGED <<backfill, sample, stopped>>
\* ---------------------------------------------- answers of the target store
\* Requests in flight are served in any order: nothing awaits them.
\* await this.anonymisedCollection.bulkWrite(bulkOperations) resolves
BulkWriteCommit(i) ==
  /\ pc = "streaming"
  /\ i \in DOMAIN bulkWrites
  /\ anonymisedCollection' =
       BulkWrite(anonymisedCollection, bulkWrites[i], Len(bulkWrites[i]))
  /\ written' = written \cup Versions(bulkWrites[i])
  /\ bulkWrites' = Remove(bulkWrites, i)
  /\ UNCHANGED <<feed, pos, pc, customerDocuments, resumeToken, timer,
                 tokenWrites, resumeTokenCollection, seen, failedDocs,
                 saveCalls, restarts, startPos>>

  /\ UNCHANGED <<backfill, sample, stopped>>
\* ... or rejects after its first n operations were applied.  Nothing handles
\* the rejected promise of the un-awaited save: the runtime (Node 18) ends the
\* process on the unhandled rejection.
BulkWriteFail(i, n) ==
  /\ pc = "streaming"
  /\ i \in DOMAIN bulkWrites
  /\ n \in 0..(Len(bulkWrites[i]) - 1)
  /\ anonymisedCollection' = BulkWrite(anonymisedCollection, bulkWrites[i], n)
  /\ written' = written \cup Versions(SubSeq(bulkWrites[i], 1, n))
  /\ failedDocs' = failedDocs \cup Versions(bulkWrites[i])
  /\ ProcessExit
  /\ UNCHANGED <<feed, resumeTokenCollection, seen, restarts>>

  /\ UNCHANGED <<sample, stopped>>
\* ------------------------------------------ answers of the checkpoint store
FirstMatch(coll) ==
  CHOOSE k \in DOMAIN coll :
    TokenFilter(coll[k]) /\ \A j \in 1..(k - 1) : ~TokenFilter(coll[j])

\* updateOne finds the checkpoint document and sets its fields
UpdateOneMatch(i) ==
  /\ pc = "streaming"
  /\ i \in DOMAIN tokenWrites
  /\ tokenWrites[i].phase = "sent"
  /\ \E k \in DOMAIN resumeTokenCollection : TokenFilter(resumeTokenCollection[k])
  /\ resumeTokenCollection' =
       [resumeTokenCollection EXCEPT
          ![FirstMatch(resumeTokenCollection)] =
             [@ EXCEPT !.id = "resumeToken",
                       !.resumeToken = tokenWrites[i].resumeToken]]
  /\ tokenWrites' = Remove(tokenWrites, i)
  /\ UNCHANGED <<feed, pos, pc, customerDocuments, resumeToken, timer,
                 bulkWrites, anonymisedCollection, written, seen, failedDocs,
                 saveCalls, restarts, startPos>>

  /\ UNCHANGED <<backfill, sample, stopped>>
\* updateOne finds no document: with upsert: true it goes on to insert one.
\* No unique index covers the filter, so other upserts may run in between.
UpdateOneMiss(i) ==
  /\ pc = "streaming"
  /\ i \in DOMAIN tokenWrites
  /\ tokenWrites[i].phase = "sent"
  /\ ~\E k \in DOMAIN resumeTokenCollection : TokenFilter(resumeTokenCollection[k])
  /\ tokenWrites' = [tokenWrites EXCEPT ![i].phase = "insert"]
  /\ UNCHANGED <<feed, pos, pc, customerDocuments, resumeToken, timer,
                 bulkWrites, stores, written, seen, failedDocs,
                 saveCalls, restarts, startPos>>

  /\ UNCHANGED <<backfill, sample, stopped>>
UpdateOneInsert(i) ==
  /\ pc = "streaming"
  /\ i \in DOMAIN tokenWrites
  /\ tokenWrites[i].phase = "insert"
  /\ resumeTokenCollection' =
       Append(resumeTokenCollection, TokenDocument(tokenWrites[i].resumeToken))
  /\ tokenWrites' = Remove(tokenWrites, i)
  /\ UNCHANGED <<feed, pos, pc, customerDocuments, resumeToken, timer,
                 bulkWrites, anonymisedCollection, written, seen, failedDocs,
                 saveCalls, restarts, startPos>>

  /\ UNCHANGED <<backfill, sample, stopped>>
\* ------------------------------------------------------------- a crash
Crash ==
  /\ pc \in {"streaming", "reindex"}
  /\ ProcessExit
  /\ UNCHANGED <<feed, stores, written, seen, failedDocs, restarts>>

  /\ UNCHANGED <<sample, stopped>>
Next ==
  \/ SourceInsert
  \/ \E document \in {[_id |-> id] : id \in ObjectIds} \cup {NoDocument} :
       SourceUpdate(document)
  \/ Start
  \/ WatchThrows
  \/ StreamError
  \/ OnChange
  \/ TimerTick
  \/ \E i \in 1..MaxInFlight : BulkWriteCommit(i)
  \/ \E i \in 1..MaxInFlight, n \in 0..(batchCount - 1) : BulkWriteFail(i, n)
  \/ \E i \in 1..MaxInFlight : UpdateOneMatch(i)
  \/ \E i \in 1..MaxInFlight : UpdateOneMiss(i)
  \/ \E i \in 1..MaxInFlight : UpdateOneInsert(i)
  \/ Crash

Spec == Init /\ [][Next]_vars

\* One process run: the same steps, without a restart.
NextRun ==
  \/ SourceInsert
  \/ \E document \in {[_id |-> id] : id \in ObjectIds} \cup {NoDocument} :
       SourceUpdate(document)
  \/ StartFirst
  \/ WatchThrowsFirst
  \/ StreamError
  \/ OnChange
  \/ TimerTick
  \/ \E i \in 1..MaxInFlight : BulkWriteCommit(i)
  \/ \E i \in 1..MaxInFlight, n \in 0..(batchCount - 1) : BulkWriteFail(i, n)
  \/ \E i \in 1..MaxInFlight : UpdateOneMatch(i)
  \/ \E i \in 1..MaxInFlight : UpdateOneMiss(i)
  \/ \E i \in 1..MaxInFlight : UpdateOneInsert(i)
  \/ Crash

SpecRun == Init /\ [][NextRun]_vars

\* =================================================================
\* The transform: createCustomer, anonymize, anonymizeEmail
\* =================================================================
\* A string is a sequence of characters.  Generated strings have the length
\* and an alphabet of the configured character set, which has no "@".
HashLength == 8
HashChars == {"a", "h"}
\* length of the e-mail addresses that are tried
MaxEmailLength == 4
Chars == {"a", "@"}
Emails == UNION {[1..n -> Chars] : n \in 0..MaxEmailLength}
Names == {<<"p">>, <<"q">>}

String(s) == [t |-> "string", v |-> s]

\* email.split("@"): the pieces between the separators, all of them
RECURSIVE Split(_)
Split(s) ==
  IF \A i \in DOMAIN s : s[i] # "@" THEN <<s>>
  ELSE LET k == CHOOSE i \in DOMAIN s :
                  s[i] = "@" /\ \A j \in 1..(i - 1) : s[j] # "@"
       IN  <<SubSeq(s, 1, k - 1)>> \o Split(SubSeq(s, k + 1, Len(s)))

\* parts[i] of an array, undefined beyond its end
Element(parts, i) ==
  IF i \in DOMAIN parts THEN String(parts[i]) ELSE Undefined

\* array.join("@"): an undefined element is joined as the empty string
Text(value) == IF value.t = "undefined" THEN <<>> ELSE value.v

RECURSIVE Join(_)
Join(parts) ==
  IF Len(parts) = 0 THEN <<>>
  ELSE IF Len(parts) = 1 THEN Text(parts[1])
       ELSE Text(parts[1]) \o <<"@">> \o Join(Tail(parts))

\* hash.digest(input): a generated string that depends on the input only
GenerateHash(input) ==
  [i \in 1..HashLength |-> IF (Len(input) + i) % 2 = 0 THEN "h" ELSE "a"]

\* randexp(/[a-zA-Z\d]{8}/): any generated string
RandomStrings == {[i \in 1..HashLength |-> c] : c \in HashChars}

\* const [before, domain] = email.split("@")
AnonymizeEmail(email) ==
  LET parts  == Split(email)
      before == Element(parts, 1)
      domain == Element(parts, 2)
  IN  Join(<<String(GenerateHash(Text(before))), domain>>)

\* const domain = email.split('@').pop()
AnonymizeEmailRandom(email, random) ==
  LET parts  == Split(email)
      domain == Element(parts, Len(parts))
  IN  Join(<<String(random), domain>>)

\* A Date is its time value; JSON.stringify writes it as an ISO string, a
\* fixed number of digits here.
Instants == {7, 12}
ToISOString(ms) == <<ms \div 10, ms % 10>>
DateParse(digits) == digits[1] * 10 + digits[2]

\* new Date(value): a copy of a Date, the parsed time of a string
NewDate(value) ==
  IF value.t = "iso" THEN [t |-> "date", ms |-> DateParse(value.v)]
  ELSE [t |-> "date", ms |-> value.ms]

\* ObjectId.toHexString
ToHex(bytes) == <<bytes[1] \div 16, bytes[1] % 16>>

\* the customers save may be handed: the _id is an ObjectId or a hex string
SourceDocuments ==
  [_id       : ObjectIds \cup {[t |-> "hex", v |-> ToHex(id.v)] : id \in ObjectIds},
   firstName : Names,
   lastName  : {<<"l">>},
   email     : Emails,
   address   : [line1 : {<<"1">>}, line2 : {<<"2">>}, postcode : {<<"z">>},
                city : Names, state : {<<"s">>}, country : {<<"c">>}],
   createdAt : {[t |-> "date", ms |-> ms] : ms \in Instants}]

\* deepCopy: JSON.parse(JSON.stringify(obj)) leaves the strings, writes an
\* ObjectId as its hex string and a Date as its ISO string
DeepCopy(doc) ==
  [doc EXCEPT
     !._id = IF @.t = "oid" THEN [t |-> "hex", v |-> ToHex(@.v)] ELSE @,
     !.createdAt = [t |-> "iso", v |-> ToISOString(@.ms)]]

CreateCustomer(doc) ==
  [firstName |-> doc.firstName,
   lastName  |-> doc.lastName,
   email     |-> doc.email,
   address   |-> [line1    |-> doc.address.line1,
                  line2    |-> doc.address.line2,
                  postcode |-> doc.address.postcode,
                  city     |-> doc.address.city,
                  state    |-> doc.address.state,
                  country  |-> doc.address.country],
   createdAt |-> NewDate(doc.createdAt)]

\* the address of anonymize
AnonymizeAddressCityToo(address) ==
  [line1    |-> GenerateHash(address.line1),
   line2    |-> GenerateHash(address.line2),
   postcode |-> GenerateHash(address.postcode),
   city     |-> GenerateHash(address.city),
   country  |-> address.country,
   state    |-> address.state]

AnonymizeAddress(address) ==
  [line1    |-> GenerateHash(address.line1),
   line2    |-> GenerateHash(address.line2),
   postcode |-> GenerateHash(address.postcode),
   city     |-> address.city,
   country  |-> address.country,
   state    |-> address.state]

Anonymize(customer) ==
  [firstName |-> GenerateHash(customer.firstName),
   lastName  |-> GenerateHash(customer.lastName),
   email     |-> AnonymizeEmail(customer.email),
   address   |-> AnonymizeAddress(customer.address),
   createdAt |-> customer.createdAt]

\* anonymize of the re-scan variant; random holds the strings it generates
AnonymizeRandom(customer, random) ==
  [firstName |-> random[1],
   lastName  |-> random[2],
   email     |-> AnonymizeEmailRandom(customer.email, random[3]),
   address   |-> [line1    |-> random[4],
                  line2    |-> random[5],
                  postcode |-> random[6],
                  city     |-> customer.address.city,
                  country  |-> customer.address.country,
                  state    |-> customer.address.state],
   createdAt |-> customer.createdAt]

\* { ...anonymized, _id: new ObjectId(document._id) }
BulkDocument(anonymized, inputId) ==
  [_id       |-> NewObjectId(inputId),
   firstName |-> anonymized.firstName,
   lastName  |-> anonymized.lastName,
   email     |-> anonymized.email,
   address   |-> anonymized.address,
   createdAt |-> anonymized.createdAt]

\* the callback of documents.map in save
MapDocument ==
  /\ sourceDocument # Undefined
  /\ bulkDocument = Undefined
  /\ bulkDocument' =
       BulkDocument(Anonymize(CreateCustomer(sourceDocument)), sourceDocument._id)
  /\ UNCHANGED <<feed, pos, pc, memory, stores, written, seen, failedDocs,
                 saveCalls, restarts, startPos, backfill, sourceDocument,
                 stopped>>

\* the same callback in the re-scan variant; the change handler hands save a
\* deep copy of its buffer, the backfill hands it the documents of the cursor
MapDocumentRandom(copied, random) ==
  /\ sourceDocument # Undefined
  /\ bulkDocument = Undefined
  /\ LET doc == IF copied THEN DeepCopy(sourceDocument) ELSE sourceDocument IN
     bulkDocument' =
       BulkDocument(AnonymizeRandom(CreateCustomer(doc), random), doc._id)
  /\ UNCHANGED <<feed, pos, pc, memory, stores, written, seen, failedDocs,
                 saveCalls, restarts, startPos, backfill, sourceDocument,
                 stopped>>

InitTransform ==
  /\ NotStarted
  /\ sourceDocument \in SourceDocuments
  /\ bulkDocument = Undefined

NextTransform ==
  \/ MapDocument
  \/ \E copied \in BOOLEAN, random \in [1..6 -> RandomStrings] :
       MapDocumentRandom(copied, random)

SpecTransform == InitTransform /\ [][NextTransform]_vars

\* =================================================================
\* The backfill: fullReindex, savePreviousCustomers, saveWithCursor
\* =================================================================
\* The customers collection, in insertion order, each customer as of its
\* latest change.  createdAt is set when the customer is inserted and never
\* changed: it is the place of the insert in the order of changes.
LatestEvent(id) ==
  CHOOSE e \in DOMAIN feed :
    /\ feed[e].fullDocument._id = id
    /\ \A later \in (e + 1)..Len(feed) : feed[later].fullDocument._id # id

RECURSIVE CustomersUpTo(_)
CustomersUpTo(p) ==
  IF p = 0 THEN <<>>
  ELSE IF feed[p].operationType = "insert"
         THEN Append(CustomersUpTo(p - 1),
                     FullDocument(LatestEvent(feed[p].fullDocument._id)))
         ELSE CustomersUpTo(p - 1)

CustomersCollection == CustomersUpTo(Len(feed))

CreatedAt(id) ==
  CHOOSE e \in DOMAIN feed :
    feed[e].operationType = "insert" /\ feed[e].fullDocument._id = id

\* find({}, { sort: [['createdAt', -1]], limit: 1 }).next(): the createdAt of
\* the newest anonymised customer, 0 for an empty collection (null)
NewestCreatedAt(coll) ==
  IF coll = <<>> THEN 0
  ELSE CHOOSE t \in {CreatedAt(coll[i]._id) : i \in DOMAIN coll} :
         \A i \in DOMAIN coll : CreatedAt(coll[i]._id) <= t

\* { createdAt: { $gte: createdAt } }
CreatedAtGt(createdAt, since) == createdAt > since

CreatedAtGte(createdAt, since) == createdAt >= since

Find(coll, since) ==
  SelectSeq(coll, LAMBDA doc : CreatedAtGte(CreatedAt(doc._id), since))

\* updateDocuments.length >= this.maxWriteBatchSize
PageFullOffByOne(length) == length > maxWriteBatchSize

PageFull(length) == length >= maxWriteBatchSize

\* what a step of the backfill leaves alone
feedState == <<feed, pos, customerDocuments, resumeToken, timer, bulkWrites,
               tokenWrites, resumeTokenCollection, seen, saveCalls, startPos,
               sample, stopped>>

\* start(true): fullReindex opens a cursor over all customers
StartFullReindex ==
  /\ pc = "down"
  /\ Len(restarts) < MaxRuns
  /\ restarts' = Append(restarts, 0)
  /\ pc' = "reindex"
  /\ backfill' = [NoBackfill EXCEPT !.pc = "reading",
                                    !.cursor = CustomersCollection]
  /\ UNCHANGED <<feedState, anonymisedCollection, written, failedDocs>>

\* start(false) of the re-scan variant: watch sets the timer and opens the
\* subscription at the feed's tail, then savePreviousCustomers is called and
\* not awaited: it runs up to its first await, the lookup of the newest
\* anonymised customer.
StartRescan ==
  /\ pc = "down"
  /\ Len(restarts) < MaxRuns
  /\ restarts' = Append(restarts, 0)
  /\ pc' = "streaming"
  /\ timer' = TRUE
  /\ pos' = Len(feed)
  /\ startPos' = Len(feed)
  /\ customerDocuments' = <<>>
  /\ backfill' = [NoBackfill EXCEPT !.pc = "find"]
  /\ UNCHANGED <<feed, resumeToken, bulkWrites, tokenWrites, stores, written,
                 seen, failedDocs, saveCalls, sample,
                 stopped>>

\* the lookup is answered: without an anonymised customer the backfill
\* returns, else it opens the cursor over the customers created since
FindAnswered ==
  /\ backfill.pc = "find"
  /\ LET createdAt == NewestCreatedAt(anonymisedCollection) IN
     backfill' =
       IF createdAt = 0 THEN [backfill EXCEPT !.pc = "done"]
       ELSE [backfill EXCEPT !.pc = "reading",
                             !.since = createdAt,
                             !.cursor = Find(CustomersCollection, createdAt)]
  /\ UNCHANGED <<feedState, pc, restarts, anonymisedCollection, written,
                 failedDocs>>

\* one round of the while loop: hasNext, next, push and, with a full page,
\* the call of save, which is awaited
CursorNext ==
  /\ backfill.pc = "reading"
  /\ backfill.next < Len(backfill.cursor)
  /\ LET updateDocuments ==
           Append(backfill.updateDocuments, backfill.cursor[backfill.next + 1])
     IN  backfill' =
           IF PageFull(Len(updateDocuments))
             THEN [backfill EXCEPT !.pc = "saving",
                                   !.next = @ + 1,
                                   !.updateDocuments = updateDocuments,
                                   !.pages = Append(@, updateDocuments)]
             ELSE [backfill EXCEPT !.next = @ + 1,
                                   !.updateDocuments = updateDocuments]
  /\ UNCHANGED <<feedState, pc, restarts, anonymisedCollection, written,
                 failedDocs>>

\* hasNext is false: what is left is saved, nothing is saved when nothing is
\* left
CursorEnd ==
  /\ backfill.pc = "reading"
  /\ backfill.next = Len(backfill.cursor)
  /\ backfill' =
       IF Len(backfill.updateDocuments) > 0
         THEN [backfill EXCEPT !.pc = "flushing",
                               !.pages = Append(@, backfill.updateDocuments)]
         ELSE [backfill EXCEPT !.pc = "done"]
  /\ UNCHANGED <<feedState, pc, restarts, anonymisedCollection, written,
                 failedDocs>>

\* the awaited bulkWrite of a page resolves: the loop goes on with an empty
\* page, or saveWithCursor returns
PageCommit ==
  /\ backfill.pc \in {"saving", "flushing"}
  /\ LET ops == BulkOperations(backfill.updateDocuments) IN
     /\ anonymisedCollection' = BulkWrite(anonymisedCollection, ops, Len(ops))
     /\ written' = written \cup Versions(ops)
  /\ backfill' =
       [backfill EXCEPT !.pc = IF @ = "saving" THEN "reading" ELSE "done",
                        !.updateDocuments = <<>>]
  /\ UNCHANGED <<feedState, pc, restarts, failedDocs>>

\* ... or rejects after its first n operations.  The rejection leaves
\* saveWithCursor and its caller: start rejects and main ends (full reindex),
\* or nothing handles it (savePreviousCustomers is not awaited); the process
\* ends either way.
PageFail(n) ==
  /\ backfill.pc \in {"saving", "flushing"}
  /\ n \in 0..(Len(backfill.updateDocuments) - 1)
  /\ LET ops == BulkOperations(backfill.updateDocuments) IN
     /\ anonymisedCollection' = BulkWrite(anonymisedCollection, ops, n)
     /\ written' = written \cup Versions(SubSeq(ops, 1, n))
     /\ failedDocs' = failedDocs \cup Versions(ops)
  /\ ProcessExit
  /\ UNCHANGED <<feed, resumeTokenCollection, seen, restarts, sample,
                 stopped>>

\* await this.fullReindex() returns: process.exit(0)
ExitAfterReindex ==
  /\ pc = "reindex"
  /\ backfill.pc = "done"
  /\ ProcessExit
  /\ UNCHANGED <<feed, stores, written, seen, failedDocs, restarts, sample,
                 stopped>>

\* The source store holds n customers, inserted one after the other, and the
\* target store holds the anonymised documents of some of them.
Customer(k) == [_id |-> [t |-> "oid", v |-> <<k>>]]

InitBackfill ==
  /\ \E n \in 0..MaxCustomers :
       /\ feed = [k \in 1..n |-> [operationType |-> "insert",
                                  fullDocument |-> Customer(k)]]
       /\ \E saved \in SUBSET (1..n) :
            /\ anonymisedCollection =
                 BulkOperations(SelectSeq([k \in 1..n |-> FullDocument(k)],
                                          LAMBDA doc : doc.ver \in saved))
            /\ written = saved
  /\ pos = 0
  /\ pc = "down"
  /\ customerDocuments = <<>>
  /\ resumeToken = 0
  /\ timer = FALSE
  /\ bulkWrites = <<>>
  /\ tokenWrites = <<>>
  /\ resumeTokenCollection = <<>>
  /\ seen = {}
  /\ failedDocs = {}
  /\ saveCalls = <<>>
  /\ restarts = <<>>
  /\ startPos = 0
  /\ backfill = NoBackfill
  /\ stopped = NeverStopped
  /\ sourceDocument = Undefined
  /\ bulkDocument = Undefined

\* No customer is inserted or updated while a backfill runs: the buffer of
\* the re-scan variant's change handler stays empty, and the interval
\* callback, which saves the empty buffer, changes nothing.
NextBackfill ==
  \/ StartFullReindex
  \/ StartRescan
  \/ FindAnswered
  \/ CursorNext
  \/ CursorEnd
  \/ PageCommit
  \/ \E n \in 0..(maxWriteBatchSize - 1) : PageFail(n)
  \/ ExitAfterReindex
  \/ Crash

SpecBackfill == InitBackfill /\ [][NextBackfill]_vars

\* a step of a running backfill
BackfillStep ==
  \/ FindAnswered
  \/ CursorNext
  \/ CursorEnd
  \/ PageCommit
  \/ \E n \in 0..(maxWriteBatchSize - 1) : PageFail(n)

\* =================================================================
\* The re-scan variant (types.ts): no resume token, a backfill on start
\* =================================================================
\* deepCopy of the buffer: JSON writes the _id of a document as a hex string
DeepCopyBuffer(documents) ==
  [i \in 1..Len(documents) |->
     [documents[i] EXCEPT
        !._id = IF @.t = "oid" THEN [t |-> "hex", v |-> ToHex(@.v)] ELSE @]]

\* insertMany of the customers generator, with as many customers as the
\* backfill is tried with: the next customer is inserted
InsertCustomer ==
  /\ Len(feed) < MaxEvents
  /\ pc = "streaming" => pos = Len(feed)
  /\ Cardinality(Inserted) < MaxCustomers
  /\ feed' = Append(feed, [operationType |-> "insert",
                           fullDocument |-> Customer(Cardinality(Inserted) + 1)])
  /\ UNCHANGED <<pos, pc, memory, stores, written, seen, failedDocs,
                 saveCalls, restarts, startPos, backfill, sample, stopped>>

\* the change handler of the re-scan variant
OnChangeRescan ==
  /\ pc = "streaming"
  /\ pos < Len(feed)
  /\ pos' = pos + 1
  /\ seen' = seen \cup {pos + 1}
  /\ IF ~HasFullDocument(feed[pos + 1])
       THEN UNCHANGED <<customerDocuments, bulkWrites, saveCalls>>
       ELSE LET documents == Append(customerDocuments, FullDocument(pos + 1)) IN
            IF SizeTrigger(Len(documents))
              THEN /\ Len(bulkWrites) < MaxInFlight
                   /\ bulkWrites' = Save(DeepCopyBuffer(documents), bulkWrites)
                   /\ customerDocuments' = <<>>
                   /\ saveCalls' = Append(saveCalls,
                                          [kind |-> "size", batch |-> documents])
              ELSE /\ customerDocuments' = documents
                   /\ UNCHANGED <<bulkWrites, saveCalls>>
  /\ UNCHANGED <<feed, pc, resumeToken, timer, tokenWrites, stores, written,
                 failedDocs, restarts, startPos, backfill, sample, stopped>>

\* the interval callback of the re-scan variant; on an empty buffer it saves
\* nothing and changes nothing
TimerTickRescan ==
  /\ pc # "down"
  /\ timer
  /\ customerDocuments # <<>>
  /\ Len(bulkWrites) < MaxInFlight
  /\ bulkWrites' = Save(DeepCopyBuffer(customerDocuments), bulkWrites)
  /\ saveCalls' = Append(saveCalls,
                         [kind |-> "timer", batch |-> customerDocuments])
  /\ customerDocuments' = <<>>
  /\ UNCHANGED <<feed, pos, pc, resumeToken, timer, tokenWrites, stores,
                 written, seen, failedDocs, restarts, startPos, backfill,
                 sample, stopped>>

\* what the process leaves behind when it ends
StoppedAt(coll) == [at |-> Len(feed), newest |-> NewestCreatedAt(coll)]

\* a crash of the re-scan variant's process
CrashRescan ==
  /\ pc = "streaming"
  /\ ProcessExit
  /\ stopped' = StoppedAt(anonymisedCollection)
  /\ UNCHANGED <<feed, stores, written, seen, failedDocs, restarts, sample>>

\* the bulkWrite of an un-awaited save rejects after its first n operations:
\* nothing handles the rejection and the process ends
BulkWriteFailRescan(i, n) ==
  /\ pc = "streaming"
  /\ i \in DOMAIN bulkWrites
  /\ n \in 0..(Len(bulkWrites[i]) - 1)
  /\ anonymisedCollection' = BulkWrite(anonymisedCollection, bulkWrites[i], n)
  /\ written' = written \cup Versions(SubSeq(bulkWrites[i], 1, n))
  /\ failedDocs' = failedDocs \cup Versions(bulkWrites[i])
  /\ ProcessExit
  /\ stopped' = StoppedAt(anonymisedCollection')
  /\ UNCHANGED <<feed, resumeTokenCollection, seen, restarts, sample>>

\* the bulkWrite of a page of the backfill rejects: savePreviousCustomers is
\* not awaited, nothing handles the rejection and the process ends
PageFailRescan(n) ==
  /\ pc = "streaming"
  /\ backfill.pc \in {"saving", "flushing"}
  /\ n \in 0..(Len(backfill.updateDocuments) - 1)
  /\ LET ops == BulkOperations(backfill.updateDocuments) IN
     /\ anonymisedCollection' = BulkWrite(anonymisedCollection, ops, n)
     /\ written' = written \cup Versions(SubSeq(ops, 1, n))
     /\ failedDocs' = failedDocs \cup Versions(ops)
  /\ ProcessExit
  /\ stopped' = StoppedAt(anonymisedCollection')
  /\ UNCHANGED <<feed, resumeTokenCollection, seen, restarts, sample>>

NextRescan ==
  \/ InsertCustomer
  \/ \E document \in {Customer(k) : k \in 1..MaxCustomers} \cup {NoDocument} :
       SourceUpdate(document)
  \/ StartRescan
  \/ OnChangeRescan
  \/ TimerTickRescan
  \/ \E i \in 1..MaxInFlight : BulkWriteCommit(i)
  \/ \E i \in 1..MaxInFlight, n \in 0..(batchCount - 1) : BulkWriteFailRescan(i, n)
  \/ FindAnswered
  \/ CursorNext
  \/ CursorEnd
  \/ PageCommit
  \/ \E n \in 0..(maxWriteBatchSize - 1) : PageFailRescan(n)
  \/ CrashRescan

SpecRescan == Init /\ [][NextRescan]_vars

\* =================================================================
\* Properties
\* =================================================================
\* event e carries a full document
Carries(e) == feed[e].fullDocument # NoDocument

\* the events the change handler has handled in the current run
RunEvents == IF pc = "streaming" THEN (startPos + 1)..pos ELSE {}

\* the documents appended in the current run up to event p, in arrival order
RECURSIVE AppendedUpTo(_)
AppendedUpTo(p) ==
  IF p <= startPos THEN <<>>
  ELSE IF Carries(p) THEN Append(AppendedUpTo(p - 1), FullDocument(p))
       ELSE AppendedUpTo(p - 1)

Appended == IF pc = "streaming" THEN AppendedUpTo(pos) ELSE <<>>

Occurrences(batch, e) == Cardinality({i \in DOMAIN batch : batch[i].ver = e})

\* how often version e was handed to save in the current run
HandedCount(e) ==
  Cardinality({c \in UNION {{<<i, j>> : j \in DOMAIN saveCalls[i].batch} :
                              i \in DOMAIN saveCalls} :
                 saveCalls[c[1]].batch[c[2]].ver = e})

NoTimerFlush == \A i \in DOMAIN saveCalls : saveCalls[i].kind # "timer"

\* the number of documents handed to save by the first i save calls of the run
RECURSIVE HandedLength(_)
HandedLength(i) ==
  IF i = 0 THEN 0 ELSE HandedLength(i - 1) + Len(saveCalls[i].batch)

\* a restarted process that resumed from a checkpoint at every restart, has
\* handled the whole feed and has nothing buffered or in flight
CaughtUpAfterRestart ==
  /\ pc = "streaming"
  /\ Len(restarts) > 1
  /\ \A i \in 2..Len(restarts) : restarts[i] # 0
  /\ pos = Len(feed)
  /\ customerDocuments = <<>>
  /\ bulkWrites = <<>>

\* C1: the persisted checkpoint never runs ahead of the target store: every
\* full-document event handled at or before the event whose token the
\* checkpoint store holds has been written to the target store.
CheckpointNeverAhead ==
  \A e \in seen : (e <= SavedToken /\ Carries(e)) => e \in written

\* C2: after a crash and a restart that resumes from the persisted
\* checkpoint no record is skipped: once the restarted process has caught up
\* (and no bulk write failed), every full-document event the feed handed to
\* the consumer has been written to the target store.
NoRecordSkipped ==
  (CaughtUpAfterRestart /\ failedDocs = {} /\ tokenWrites = <<>>)
    => \A e \in seen : Carries(e) => e \in written

\* C3: within one run every appended full-document event is in the buffer or
\* was handed to save in exactly one batch, never both and never twice, and
\* none is dropped.
ExactlyOneBatch ==
  \A e \in RunEvents :
    Carries(e) => HandedCount(e) + Occurrences(customerDocuments, e) = 1

\* C3 witness: a size-triggered and a timer-triggered flush in one run
BothFlushKinds ==
  /\ \E i \in DOMAIN saveCalls : saveCalls[i].kind = "size"
  /\ \E i \in DOMAIN saveCalls : saveCalls[i].kind = "timer"
  /\ \A e \in RunEvents : Carries(e) => HandedCount(e) = 1

\* C4: when the bulk write of a batch fails, the persisted checkpoint is not
\* advanced past a record of the failed batch that is not written, and the
\* records of the failed batch are written once a process restarted from the
\* checkpoint has caught up.
FailedBatchReplayed ==
  /\ \A e \in failedDocs \ written : SavedToken < e
  /\ CaughtUpAfterRestart => failedDocs \subseteq written

\* C5: the token held in the checkpoint store never moves backwards in feed
\* order.
CheckpointMonotone == [][SavedToken' >= SavedToken]_vars

\* the versions of record id that were handed to save in the current run
HandedVersions(id) ==
  {e \in RunEvents : Carries(e) /\ feed[e].fullDocument._id = id /\ HandedCount(e) > 0}

Newest(versions) == CHOOSE e \in versions : \A other \in versions : other <= e

\* C6: in a run without failure, once every issued bulk write was answered,
\* the target document of each record id is the transform of the newest
\* version of that record that was handed to save.
LatestVersionWins ==
  (pc = "streaming" /\ Len(restarts) = 1 /\ bulkWrites = <<>>)
    => \A i \in DOMAIN anonymisedCollection :
         anonymisedCollection[i].ver =
           Newest(HandedVersions(anonymisedCollection[i]._id))

\* the record ids some applied upsert carried
WrittenIds == {feed[e].fullDocument._id : e \in written}

DocumentsOf(id) ==
  {i \in DOMAIN anonymisedCollection : anonymisedCollection[i]._id = id}

\* C7: the target store holds exactly one document per record id that was
\* saved, and no other document, however often an id was saved.
OneDocumentPerId ==
  /\ \A id \in WrittenIds : Cardinality(DocumentsOf(id)) = 1
  /\ Len(anonymisedCollection) = Cardinality(WrittenIds)

\* C7 witness: one record id saved in two versions, by two bulk writes
SavedTwice ==
  /\ \E e1 \in written, e2 \in written :
       /\ e1 # e2
       /\ feed[e1].fullDocument._id = feed[e2].fullDocument._id
       /\ Cardinality(DocumentsOf(feed[e1].fullDocument._id)) = 1
  /\ Len(saveCalls) > 1

\* the last time-triggered flush among the save calls of the run, 0 for none
LastTimerFlush ==
  IF NoTimerFlush THEN 0
  ELSE CHOOSE i \in DOMAIN saveCalls :
         /\ saveCalls[i].kind = "timer"
         /\ \A j \in DOMAIN saveCalls : saveCalls[j].kind = "timer" => j <= i

\* the documents appended since the buffer was last emptied by the timer (or
\* since the start), in arrival order
SinceEmpty ==
  LET n == IF LastTimerFlush = 0 THEN 0
           ELSE HandedLength(LastTimerFlush)
  IN  SubSeq(Appended, n + 1, Len(Appended))

\* C8: counting from an empty buffer (the start, or a time-triggered flush)
\* with no time-triggered flush since, every full batchCount appended events
\* cause exactly one size-triggered flush holding exactly these batchCount
\* records in arrival order; at exactly batchCount events that is one flush
\* and an empty buffer, below batchCount it is no flush.
SizeTriggerFlush ==
  pc = "streaming" =>
    LET flushes == SubSeq(saveCalls, LastTimerFlush + 1, Len(saveCalls)) IN
    /\ Len(flushes) = Len(SinceEmpty) \div batchCount
    /\ \A i \in DOMAIN flushes :
         flushes[i] =
           [kind |-> "size",
            batch |-> SubSeq(SinceEmpty, (i - 1) * batchCount + 1, i * batchCount)]
    /\ customerDocuments =
         SubSeq(SinceEmpty, Len(flushes) * batchCount + 1, Len(SinceEmpty))

\* C8 witness: batchCount events appended, flushed by the size trigger
SizeFlushed ==
  /\ pc = "streaming"
  /\ Len(Appended) = batchCount
  /\ saveCalls = <<[kind |-> "size", batch |-> Appended]>>
  /\ Len(bulkWrites) = 1

\* a step of the interval callback with k buffered records, 0 < k <
\* batchCount: the one step that issues a checkpoint write and handles no event
IntervalStep ==
  /\ pc = "streaming" /\ pc' = "streaming"
  /\ pos' = pos
  /\ Len(tokenWrites') = Len(tokenWrites) + 1
  /\ 0 < Len(customerDocuments)
  /\ Len(customerDocuments) < batchCount

\* C9: a timer tick on a buffer of k records, 0 < k < batchCount, hands
\* exactly one batch to save, holding all k records, as a time-triggered
\* flush, issues one bulk write and leaves the buffer empty.
TimerTriggerFlush ==
  [][IntervalStep =>
       /\ saveCalls' = Append(saveCalls,
                              [kind |-> "timer", batch |-> customerDocuments])
       /\ Len(bulkWrites') = Len(bulkWrites) + 1
       /\ Len(bulkWrites'[Len(bulkWrites')]) = Len(customerDocuments)
       /\ customerDocuments' = <<>>]_vars

\* C9 witness: the state right after a time-triggered flush of a partial batch
TimerFlushed ==
  /\ pc = "streaming"
  /\ saveCalls # <<>>
  /\ saveCalls[Len(saveCalls)].kind = "timer"
  /\ Len(saveCalls[Len(saveCalls)].batch) < batchCount
  /\ saveCalls[Len(saveCalls)].batch[Len(saveCalls[Len(saveCalls)].batch)].ver = pos
  /\ customerDocuments = <<>>

\* every buffered document and every document handed to save or sent to the
\* target store comes from an event that carries a full document
OnlyFullDocuments ==
  /\ \A i \in DOMAIN customerDocuments : Carries(customerDocuments[i].ver)
  /\ \A i \in DOMAIN saveCalls : \A j \in DOMAIN saveCalls[i].batch :
       Carries(saveCalls[i].batch[j].ver)
  /\ \A i \in DOMAIN bulkWrites : \A j \in DOMAIN bulkWrites[i] :
       Carries(bulkWrites[i][j].ver)

\* the change handler handles an event without a full document
SkipStep ==
  /\ pc = "streaming"
  /\ pos' = pos + 1
  /\ ~Carries(pos + 1)

\* C10: an event without a full document never gets into the buffer or into
\* a batch, leaves the buffer, the pending token and the issued writes as
\* they were, and leaves the consumer subscribed with its timer running.
SkippedEvents ==
  /\ []OnlyFullDocuments
  /\ [][SkipStep =>
          /\ UNCHANGED <<customerDocuments, resumeToken, saveCalls,
                         bulkWrites, tokenWrites>>
          /\ pc' = "streaming"
          /\ timer']_vars

\* C10 witness: an event was skipped and a later event of the run was buffered
\* or flushed
SkippedThenAppended ==
  \E e1 \in RunEvents, e2 \in RunEvents :
    /\ e1 < e2
    /\ ~Carries(e1)
    /\ Carries(e2)
    /\ HandedCount(e2) + Occurrences(customerDocuments, e2) = 1

\* ------------------------------------------------------------------ C11
\* a bulk write of the target store is rejected
WriteFailureStep == failedDocs' # failedDocs

\* C11: a rejected write to the target store is absorbed: the process goes
\* on, the subscription stays open and the timer stays set, so that later
\* events are still buffered and flushed.
WriteFailureAbsorbed ==
  [][WriteFailureStep => pc' = "streaming" /\ timer']_vars

\* ------------------------------------------------------------------ C12
\* C12: once the subscription has failed, while it was being opened or after
\* it was established, the timer is stopped, and from then on no timer-driven
\* flush and no checkpoint write is issued and neither store changes: the
\* Feed Consumer has ended with the failure.
SubscriptionErrorFatal ==
  /\ [](pc = "failed" => ~timer)
  /\ [][pc = "failed" =>
          UNCHANGED <<tokenWrites, bulkWrites, saveCalls, stores>>]_vars

\* C12 witness: the subscription failed after the run had handled events
FailedAfterEvents ==
  /\ pc = "failed"
  /\ seen # {}
  /\ written # {}

\* ------------------------------------------------------------------ C17
\* a start of the Feed Consumer
StartStep == pc # "streaming" /\ pc' = "streaming"

\* C17: whatever checkpoint writes were issued, overlapping ones included,
\* the checkpoint store holds at most one checkpoint document; a start loads
\* the token that document holds, and with no checkpoint document the
\* subscription starts without a resume position, at the feed's tail.
CheckpointRoundTrip ==
  /\ [](Len(resumeTokenCollection) <= 1)
  /\ [][StartStep =>
          /\ resumeToken' = SavedToken
          /\ resumeTokenCollection = <<>> => pos' = Len(feed)]_vars

\* ------------------------------------------------------------------ C19
\* no bulk write in flight is empty
NoEmptyBulkWrite == \A i \in DOMAIN bulkWrites : Len(bulkWrites[i]) > 0

\* a step of the running consumer that handles no event, taken with an empty
\* buffer: a timer tick on an empty buffer, or an answer of a store
EmptyBufferStep ==
  /\ pc = "streaming" /\ pc' = "streaming"
  /\ pos' = pos
  /\ customerDocuments = <<>>

\* C19: a timer tick on an empty buffer hands nothing to save and issues no
\* bulk write, an empty batch never reaches the target store, and the buffer
\* stays empty.
EmptyTickNoOp ==
  /\ []NoEmptyBulkWrite
  /\ [][EmptyBufferStep =>
          /\ saveCalls' = saveCalls
          /\ Len(bulkWrites') <= Len(bulkWrites)
          /\ bulkWrites' = bulkWrites => anonymisedCollection' = anonymisedCollection
          /\ customerDocuments' = <<>>]_vars

\* C19 witness: after a flush, a tick on the empty buffer issued a second
\* checkpoint write with the same token, and nothing else
TickedOnEmptyBuffer ==
  /\ pc = "streaming"
  /\ Len(tokenWrites) = 2
  /\ tokenWrites[1].resumeToken = tokenWrites[2].resumeToken
  /\ Len(saveCalls) = 1
  /\ Len(bulkWrites) = 1
  /\ customerDocuments = <<>>

\* ------------------------------------------------------------------ C20
\* the token the consumer loaded when it started
LoadedToken == restarts[Len(restarts)]

\* the event of the last document of a batch
LastEvent(batch) == batch[Len(batch)].ver

\* a checkpoint write is issued
TokenWriteStep == Len(tokenWrites') = Len(tokenWrites) + 1

\* C20: a checkpoint write carries the token of the last event of the batch
\* the same flush drained; when the flush drained an empty buffer, the token
\* of the last event of the batch drained last before it, or the token loaded
\* at the start.  It is never the token of an event still in the buffer or
\* of an event that was skipped.
TokenOfDrainedBatch ==
  [][TokenWriteStep =>
       LET token == tokenWrites'[Len(tokenWrites')].resumeToken IN
       /\ IF saveCalls' # saveCalls
            THEN token = LastEvent(saveCalls'[Len(saveCalls')].batch)
            ELSE IF saveCalls # <<>>
                   THEN token = LastEvent(saveCalls[Len(saveCalls)].batch)
                   ELSE token = LoadedToken
       /\ \A i \in DOMAIN customerDocuments' : customerDocuments'[i].ver # token
       /\ token = LoadedToken \/ Carries(token)]_vars

\* C20 witness: the checkpoint writes of two flushes are in flight, each with
\* the token of the last event of its batch, and the second batch's last
\* event came after an event that was skipped
TokensOfTwoBatches ==
  /\ pc = "streaming"
  /\ Len(tokenWrites) = 2
  /\ Len(saveCalls) = 2
  /\ \A i \in 1..2 : tokenWrites[i].resumeToken = LastEvent(saveCalls[i].batch)
  /\ \E e \in RunEvents : ~Carries(e)

\* ------------------------------------------------------------------ C15
\* s is a string of the generator: its length, its alphabet
GeneratorOutput(s) ==
  /\ Len(s) = HashLength
  /\ \A i \in DOMAIN s : s[i] \in HashChars

\* C15: the document put in the bulk write has the source document's id, its
\* createdAt and its address.city, state and country; its firstName,
\* lastName, address.line1, line2 and postcode and the local part of its
\* email are generator output, and it has no other field.
FieldsPreserved ==
  bulkDocument # Undefined =>
    /\ bulkDocument._id.t = "oid"
    /\ sourceDocument._id.t = "oid" => bulkDocument._id = sourceDocument._id
    /\ sourceDocument._id.t = "hex" =>
         ToHex(bulkDocument._id.v) = sourceDocument._id.v
    /\ bulkDocument.createdAt = sourceDocument.createdAt
    /\ bulkDocument.address.city = sourceDocument.address.city
    /\ bulkDocument.address.state = sourceDocument.address.state
    /\ bulkDocument.address.country = sourceDocument.address.country
    /\ GeneratorOutput(bulkDocument.firstName)
    /\ GeneratorOutput(bulkDocument.lastName)
    /\ GeneratorOutput(bulkDocument.address.line1)
    /\ GeneratorOutput(bulkDocument.address.line2)
    /\ GeneratorOutput(bulkDocument.address.postcode)
    /\ GeneratorOutput(Split(bulkDocument.email)[1])
    /\ DOMAIN bulkDocument =
         {"_id", "firstName", "lastName", "email", "address", "createdAt"}
    /\ DOMAIN bulkDocument.address =
         {"line1", "line2", "postcode", "city", "state", "country"}

\* C15 witness: a document whose _id came as a hex string was transformed
\* with generated strings that are not the hash of its fields
TransformedHexId ==
  /\ bulkDocument # Undefined
  /\ sourceDocument._id.t = "hex"
  /\ bulkDocument.firstName # GenerateHash(sourceDocument.firstName)
  /\ sourceDocument.address.city # sourceDocument.firstName

\* ------------------------------------------------------------------ C16
HasAt(s) == \E i \in DOMAIN s : s[i] = "@"

\* what follows the first "@" of s
AfterFirstAt(s) ==
  LET k == CHOOSE i \in DOMAIN s : s[i] = "@" /\ \A j \in 1..(i - 1) : s[j] # "@"
  IN  SubSeq(s, k + 1, Len(s))

\* C16: the anonymized e-mail is a generated local part, an "@" and the whole
\* of what followed the first "@" of the source e-mail, also when that holds
\* further "@"; an e-mail without "@" yields a value as well.
DomainPreserved ==
  bulkDocument # Undefined =>
    /\ bulkDocument.email \in Seq(Chars \cup HashChars)
    /\ HasAt(sourceDocument.email) =>
         /\ HasAt(bulkDocument.email)
         /\ AfterFirstAt(bulkDocument.email) = AfterFirstAt(sourceDocument.email)

\* ------------------------------------------------------------------ C13
\* the ids of the documents the backfill has handed to save
PagedIds ==
  UNION {{backfill.pages[i][j]._id : j \in DOMAIN backfill.pages[i]} :
           i \in DOMAIN backfill.pages}

\* the ids of the customers created at or after an instant
CreatedSince(since) == {id \in Inserted : CreatedAt(id) >= since}

\* the lookup of the newest anonymised customer is answered
FindStep ==
  /\ backfill.pc = "find"
  /\ pc' = "streaming"
  /\ backfill'.pc # "find"

\* C13: with an empty target store the incremental backfill saves nothing.
\* Else, with T the createdAt of the newest anonymised customer, it hands to
\* save every customer with createdAt >= T, the one at T included, and no
\* customer with createdAt < T.
BackfillBoundary ==
  /\ [][FindStep =>
          IF anonymisedCollection = <<>>
            THEN backfill'.pc = "done" /\ backfill'.since = 0
            ELSE /\ \E i \in DOMAIN anonymisedCollection :
                      CreatedAt(anonymisedCollection[i]._id) = backfill'.since
                 /\ \A i \in DOMAIN anonymisedCollection :
                      CreatedAt(anonymisedCollection[i]._id) <= backfill'.since]_vars
  /\ [](pc = "streaming" =>
          /\ \A id \in PagedIds : CreatedAt(id) >= backfill.since
          /\ backfill.pc = "done" =>
               PagedIds = IF backfill.since = 0 THEN {}
                          ELSE CreatedSince(backfill.since))

\* C13 witness: an incremental backfill is done that left out the customers
\* older than the newest anonymised one and saved two pages
BackfilledSince ==
  /\ pc = "streaming"
  /\ backfill.pc = "done"
  /\ backfill.since > 1
  /\ Len(backfill.pages) = 2

\* ------------------------------------------------------------------ C18
RECURSIVE Flatten(_)
Flatten(pages) ==
  IF pages = <<>> THEN <<>> ELSE Head(pages) \o Flatten(Tail(pages))

\* the documents read from the cursor that were handed to save
HandedToSave ==
  SubSeq(backfill.cursor, 1,
         IF backfill.pc = "reading"
           THEN backfill.next - Len(backfill.updateDocuments)
           ELSE backfill.next)

\* The pages handed to save are the documents read so far, each once and in
\* cursor order; every page but the last holds maxWriteBatchSize documents,
\* the last holds 1..maxWriteBatchSize, fewer only when the cursor is at its
\* end; the next document is read only when every page handed to save was
\* written; at the end every document of the cursor was handed to save.
PagesOfCursor ==
  backfill.pc \in {"reading", "saving", "flushing", "done"} =>
    /\ Flatten(backfill.pages) = HandedToSave
    /\ \A i \in DOMAIN backfill.pages :
         /\ Len(backfill.pages[i]) >= 1
         /\ Len(backfill.pages[i]) <= maxWriteBatchSize
         /\ Len(backfill.pages[i]) < maxWriteBatchSize =>
              /\ i = Len(backfill.pages)
              /\ backfill.pc \in {"flushing", "done"}
              /\ backfill.next = Len(backfill.cursor)
    /\ backfill.pc \in {"reading", "done"} =>
         \A i \in DOMAIN backfill.pages : Versions(backfill.pages[i]) \subseteq written
    /\ backfill.pc = "done" => HandedToSave = backfill.cursor

\* what saveWithCursor has left to do: the documents to read, the page to
\* save
Remaining ==
  2 * (Len(backfill.cursor) - backfill.next) +
    (CASE backfill.pc = "reading" -> 2
       [] backfill.pc = "saving" -> 3
       [] backfill.pc = "flushing" -> 1
       [] OTHER -> 0)

InSaveWithCursor == backfill.pc \in {"reading", "saving", "flushing"}

\* C18: saveWithCursor hands every document of the cursor to save exactly
\* once, in cursor order, in pages of maxWriteBatchSize with a last page of
\* 1..maxWriteBatchSize and never an empty one, and awaits the save of a
\* page before it reads on.  It terminates: until it is done it can always
\* take a step, and every step leaves it less to do.
SaveWithCursorPages ==
  /\ []PagesOfCursor
  /\ [](InSaveWithCursor => ENABLED BackfillStep)
  /\ [][InSaveWithCursor /\ backfill' # backfill /\ backfill'.pc # "idle" =>
          /\ Remaining' < Remaining
          /\ backfill.pc # "reading" => backfill'.next = backfill.next]_vars

\* C18 witness: a full reindex is done that saved two full pages and a last
\* page that is not full
ThreePagesSaved ==
  /\ pc = "reindex"
  /\ backfill.pc = "done"
  /\ Len(backfill.pages) = 3
  /\ Len(backfill.pages[1]) = maxWriteBatchSize
  /\ Len(backfill.pages[3]) < maxWriteBatchSize

\* ------------------------------------------------------------------ C14
\* the subscription is open or the timer is set
FeedActive == pc = "streaming" \/ timer

\* C14: a process started for a full reindex never opens the subscription
\* or sets the timer, and the incremental backfill never runs while the
\* subscription is open or the timer is set.
BackfillExclusive ==
  /\ pc = "reindex" => ~timer
  /\ backfill.pc \in {"find", "reading", "saving", "flushing"} => ~FeedActive

\* ------------------------------------------------------------------ C22
\* C22: whenever a handler has returned, the buffer holds fewer than
\* batchCount records; so an append never takes it beyond batchCount.
BufferBound == Len(customerDocuments) < batchCount

\* C22 witness: after a size-triggered flush the buffer was filled again up to
\* one record below the threshold
BufferRefilled ==
  /\ pc = "streaming"
  /\ Len(customerDocuments) = batchCount - 1
  /\ \E i \in DOMAIN saveCalls : saveCalls[i].kind = "size"

\* ------------------------------------------------------------------ C21
\* the customers inserted while the process was down: after it ended and
\* before the subscription of the running process was opened
InsertedWhileDown ==
  {feed[e].fullDocument._id :
     e \in {x \in DOMAIN feed : /\ feed[x].operationType = "insert"
                                /\ stopped.at < x
                                /\ x <= startPos}}

TargetIds == {anonymisedCollection[i]._id : i \in DOMAIN anonymisedCollection}

\* the process was restarted over a target store that was not empty when it
\* ended, and the re-scan of the restart has come to its end
RescanDone ==
  /\ pc = "streaming"
  /\ stopped.newest > 0
  /\ backfill.pc = "done"

\* C21: in the re-scan variant, when the re-scan started by a restart has
\* ended, it has handed to save every customer newer than the newest
\* anonymised customer the target store held when the process ended, and
\* every customer inserted while the process was down is in the target
\* store, however the lookup of the newest anonymised customer interleaves
\* with the flushes of the running change handler and timer.
RescanCovers ==
  RescanDone =>
    /\ \A id \in Inserted :
         CreatedAt(id) > stopped.newest /\ CreatedAt(id) <= startPos =>
           id \in PagedIds
    /\ InsertedWhileDown \subseteq TargetIds

====
